---- MODULE Spec2Model ----
(***************************************************************************)
(* Battle engine of the Mastodon battle bot: class Battle (one duel, two   *)
(* simultaneous declarations per round) and class BattleManager (registry  *)
(* of live battles, one battle per participant).                           *)
(* The status handler and the stream runner that posts its replies are     *)
(* modelled on top of the manager (SpecRunner).                            *)
(*                                                                         *)
(* Identities (accts) are JavaScript strings; they are modelled as         *)
(* sequences of UTF-16 code units so that Array.prototype.sort and         *)
(* join('__') are computed, not assumed.  null is the empty sequence for   *)
(* identity-valued fields and the string "null" for action slots.          *)
(* Probabilities are kept in permille; a Math.random() draw r stands for   *)
(* the number r/1000.                                                      *)
(***************************************************************************)
EXTENDS Integers, Sequences, FiniteSets, Bags, TLC

VARIABLES characterStore, battlesById, battleIdByPlayer, last, posting

vars == <<characterStore, battlesById, battleIdByPlayer, last, posting>>

(* ---------------- bounds of the model ---------------- *)

\* submitAction is explored for battles whose round counter is at most MaxRound
MaxRound == 2

\* the most replies whose M.post is under way at a time
MaxPosting == 2

\* the largest atk and def of the catalogs that vary the stats
MaxAtk == 3
MaxDef == 3

\* representative outcomes of Math.random(), in permille
Draws == {0, 110, 500, 999}

(* ---------------- 0) constants ---------------- *)

ActionEnum == {"attack", "defend", "evade"}

\* values a caller of submitAction may pass: the three actions and a foreign one
ActionInputs == ActionEnum \cup {"dance"}

Null == <<>>

(* ---------------- 1) character data ---------------- *)

\* accts "a", "a__b", "b", "b__c", "c" as code-unit sequences
AcctA == <<97>>
AcctAB == <<97, 95, 95, 98>>
AcctB == <<98>>
AcctBC == <<98, 95, 95, 99>>
AcctC == <<99>>

Template(id, maxHp, atk, def, agi, speed, crit) ==
    [id |-> id, maxHp |-> maxHp, atk |-> atk, def |-> def, agi |-> agi,
     speed |-> speed, crit |-> crit]

\* loadCharacters is a placeholder in the source (two example entries, to be
\* replaced by the registered accts).  Three small catalogs stand for it:
\* three characters with varied stats (a speed tie, def > atk, crit never /
\* sometimes / always); four one-hit characters, enough for two battles at
\* a time; and five one-hit characters whose accts contain '__'.
loadCharacters ==
    [acct \in {AcctA, AcctB, AcctC} |->
        CASE acct = AcctA -> Template(acct, 2, 2, 2, 15, 18, 100)
          [] acct = AcctB -> Template(acct, 2, 1, 2, 28, 20, 0)
          [] acct = AcctC -> Template(acct, 3, 1, 0, 70, 18, 1000)]

loadCharactersPairs ==
    [acct \in {AcctA, AcctAB, AcctB, AcctC} |->
        CASE acct = AcctA  -> Template(acct, 1, 1, 0, 10, 5, 0)
          [] acct = AcctAB -> Template(acct, 1, 1, 0, 10, 4, 0)
          [] acct = AcctB  -> Template(acct, 1, 1, 0, 10, 3, 0)
          [] acct = AcctC  -> Template(acct, 1, 1, 0, 10, 1, 0)]

loadCharactersKeys ==
    [acct \in {AcctA, AcctAB, AcctB, AcctBC, AcctC} |->
        CASE acct = AcctA  -> Template(acct, 1, 1, 0, 10, 5, 0)
          [] acct = AcctAB -> Template(acct, 1, 1, 0, 10, 4, 0)
          [] acct = AcctB  -> Template(acct, 1, 1, 0, 10, 3, 0)
          [] acct = AcctBC -> Template(acct, 1, 1, 0, 10, 2, 0)
          [] acct = AcctC  -> Template(acct, 1, 1, 0, 10, 1, 0)]

\* the two example entries of the source: accts "sawa_2@mastodon.social" and
\* "sawa_@mastodon.social"
AcctSawa2 == <<115, 97, 119, 97, 95, 50, 64, 109, 97, 115, 116, 111, 100, 111, 110, 46,
               115, 111, 99, 105, 97, 108>>
AcctSawa == <<115, 97, 119, 97, 95, 64, 109, 97, 115, 116, 111, 100, 111, 110, 46,
              115, 111, 99, 105, 97, 108>>

loadCharactersSource ==
    [acct \in {AcctSawa2, AcctSawa} |->
        IF acct = AcctSawa2 THEN Template(acct, 100, 20, 10, 15, 18, 100)
                            ELSE Template(acct, 90, 22, 9, 28, 20, 120)]

\* catalogs of the two example accts with other stats: every atk up to MaxAtk
\* against every def up to MaxDef, with crit never, sometimes and always
loadCharactersStats(atk, def, crit) ==
    [acct \in {AcctSawa2, AcctSawa} |->
        IF acct = AcctSawa2 THEN Template(acct, 3, atk, def, 15, 18, crit)
                            ELSE Template(acct, 3, atk, def, 28, 20, crit)]

StatCatalogs ==
    { loadCharactersStats(atk, def, crit) : atk \in 0..MaxAtk, def \in 0..MaxDef, crit \in {0, 100, 1000} }

(* ---------------- 2) utilities ---------------- *)

Max(x, y) == IF x >= y THEN x ELSE y
Min(x, y) == IF x <= y THEN x ELSE y

\* Map.prototype.set / delete, and property assignment on a plain object
MapSet(m, k, v) == [x \in DOMAIN m \cup {k} |-> IF x = k THEN v ELSE m[x]]
MapDelete(m, k) == [x \in DOMAIN m \ {k} |-> m[x]]

\* JavaScript string comparison: lexicographic by code unit
RECURSIVE StrLess(_, _)
StrLess(s, t) ==
    IF t = <<>> THEN FALSE
    ELSE IF s = <<>> THEN TRUE
    ELSE IF Head(s) < Head(t) THEN TRUE
    ELSE IF Head(s) > Head(t) THEN FALSE
    ELSE StrLess(Tail(s), Tail(t))

\* a key that keeps the order of the arguments
makeBattleIdUnsorted(acctA, acctB) == acctA \o <<95, 95>> \o acctB

\* [acctA, acctB].sort().join('__')
makeBattleId(acctA, acctB) ==
    LET sorted == IF StrLess(acctB, acctA) THEN <<acctB, acctA>> ELSE <<acctA, acctB>>
    IN  sorted[1] \o <<95, 95>> \o sorted[2]

\* a builder that hands out the combatant of the last call's battle again
buildCharacterFromAcctReusesLast(acct) ==
    LET base == characterStore[acct]
        prior == IF last.battle = <<>> THEN {}
                 ELSE { c \in {last.battle[1].playerA, last.battle[1].playerB} : c.id = acct }
    IN  IF prior # {} THEN CHOOSE c \in prior : TRUE
        ELSE [id |-> base.id, maxHp |-> base.maxHp, hp |-> base.maxHp, atk |-> base.atk,
              def |-> base.def, agi |-> base.agi, speed |-> base.speed, crit |-> base.crit]

\* clone of the template with hp = maxHp
buildCharacterFromAcct(acct) ==
    LET base == characterStore[acct]
    IN  [id |-> base.id, maxHp |-> base.maxHp, hp |-> base.maxHp, atk |-> base.atk,
         def |-> base.def, agi |-> base.agi, speed |-> base.speed, crit |-> base.crit]

(* ---------------- 3) Battle ---------------- *)

\* an order that puts the slower combatant first
decideOrderSlowFirst(a, b) ==
    IF a.speed > b.speed THEN { <<b.id, a.id>> }
    ELSE IF b.speed > a.speed THEN { <<a.id, b.id>> }
    ELSE { IF r < 500 THEN <<a.id, b.id>> ELSE <<b.id, a.id>> : r \in Draws }

\* the orders [first, second] decideOrder can return: by speed, and on a tie
\* by the draw Math.random() < 0.5
decideOrder(a, b) ==
    IF a.speed > b.speed THEN { <<a.id, b.id>> }
    ELSE IF b.speed > a.speed THEN { <<b.id, a.id>> }
    ELSE { IF r < 500 THEN <<a.id, b.id>> ELSE <<b.id, a.id>> : r \in Draws }

\* the constructor, with the order decideOrder returned
NewBattle(playerA, playerB, order) ==
    [playerA |-> playerA, playerB |-> playerB,
     turnOrder |-> order,
     actions |-> [p \in {playerA.id, playerB.id} |-> "null"],
     round |-> 1, isFinished |-> FALSE, winnerId |-> Null]

getPlayer(b, id) ==
    IF b.playerA.id = id THEN b.playerA
    ELSE IF b.playerB.id = id THEN b.playerB
    ELSE Null

getOpponent(b, id) ==
    IF b.playerA.id = id THEN b.playerB
    ELSE IF b.playerB.id = id THEN b.playerA
    ELSE Null

\* ready as soon as one slot is set
isReadySome(b) == \E p \in DOMAIN b.actions : b.actions[p] # "null"

\* Object.values(this.actions).every((a) => a !== null)
isReady(b) == \A p \in DOMAIN b.actions : b.actions[p] # "null"

\* a reset that clears playerA's slot only
resetActionsOnlyA(b) == [b EXCEPT !.actions[b.playerA.id] = "null"]

\* a reset that clears nothing
resetActionsNone(b) == b

resetActions(b) ==
    [b EXCEPT !.actions = [[@ EXCEPT ![b.playerA.id] = "null"] EXCEPT ![b.playerB.id] = "null"]]

\* an end check that misses playerB's defeat
checkEndMissesB(b) ==
    IF b.playerA.hp <= 0
    THEN [battle |-> [b EXCEPT !.isFinished = TRUE, !.winnerId = b.playerB.id], ended |-> TRUE]
    ELSE [battle |-> b, ended |-> FALSE]

\* the battle after checkEnd, and checkEnd's return value
checkEnd(b) ==
    IF b.playerA.hp <= 0 /\ b.playerB.hp <= 0
    THEN [battle |-> [b EXCEPT !.isFinished = TRUE, !.winnerId = Null], ended |-> TRUE]
    ELSE IF b.playerA.hp <= 0
    THEN [battle |-> [b EXCEPT !.isFinished = TRUE, !.winnerId = b.playerB.id], ended |-> TRUE]
    ELSE IF b.playerB.hp <= 0
    THEN [battle |-> [b EXCEPT !.isFinished = TRUE, !.winnerId = b.playerA.id], ended |-> TRUE]
    ELSE [battle |-> b, ended |-> FALSE]

(* ---- combat math: r is the Math.random() draw the function consumes ---- *)

isAttackHit(attacker, defender, r) ==
    LET hit == Max(100, Min(950, 800 + 5 * (attacker.agi - defender.agi)))
    IN  r < hit

tryEvade(defender, r) ==
    LET chance == Max(50, Min(600, 10 * defender.agi))
    IN  r < chance

tryDefend(defender, r) ==
    LET chance == Max(50, Min(600, 10 * defender.def))
    IN  r < chance

\* what calcDamage returns, with the Math.random() draws it consumed on the way
DamageResult(dmg, crit, defended, rolls) ==
    [dmg |-> dmg, crit |-> crit, defended |-> defended, rolls |-> rolls]

\* a calcDamage whose defended damage is not clamped at 0
calcDamageWithNoClamp(attacker, defender, defenderAction, rCrit, rDef) ==
    LET dmg == attacker.atk
    IN  IF rCrit < attacker.crit
        THEN DamageResult((dmg * 3) \div 2, TRUE, "undefined", <<"crit">>)
        ELSE IF defenderAction = "defend"
        THEN IF tryDefend(defender, rDef)
             THEN DamageResult(dmg - defender.def, FALSE, "true", <<"crit", "defend">>)
             ELSE DamageResult(dmg, FALSE, "false", <<"crit", "defend">>)
        ELSE DamageResult(dmg, FALSE, "undefined", <<"crit">>)

\* a calcDamage that lets a successful defend take precedence over a crit
calcDamageWithDefendFirst(attacker, defender, defenderAction, rCrit, rDef) ==
    LET dmg == attacker.atk
    IN  IF defenderAction = "defend" /\ tryDefend(defender, rDef)
        THEN DamageResult(Max(0, dmg - defender.def), FALSE, "true", <<"defend">>)
        ELSE IF rCrit < attacker.crit
        THEN DamageResult(Max(0, (dmg * 3) \div 2), TRUE, "undefined", <<"crit">>)
        ELSE DamageResult(dmg, FALSE, IF defenderAction = "defend" THEN "false" ELSE "undefined",
                          <<"crit">>)

\* calcDamage for given outcomes of its crit draw and of tryDefend's draw
calcDamageWith(attacker, defender, defenderAction, rCrit, rDef) ==
    LET dmg == attacker.atk
    IN  IF rCrit < attacker.crit
        THEN DamageResult(Max(0, (dmg * 3) \div 2), TRUE, "undefined", <<"crit">>)
        ELSE IF defenderAction = "defend"
        THEN IF tryDefend(defender, rDef)
             THEN DamageResult(Max(0, dmg - defender.def), FALSE, "true", <<"crit", "defend">>)
             ELSE DamageResult(dmg, FALSE, "false", <<"crit", "defend">>)
        ELSE DamageResult(dmg, FALSE, "undefined", <<"crit">>)

\* the results calcDamage can return, over the draws it consumes
calcDamage(attacker, defender, defenderAction) ==
    { calcDamageWith(attacker, defender, defenderAction, rCrit, rDef)
      : rCrit \in Draws, rDef \in Draws }

(* ---- resolution ---- *)

\* a log line: the event, the combatant whose action is being processed,
\* what calcDamage returned, and the draws consumed for the line
LogLine(ev, who, d) ==
    [ev |-> ev, who |-> who, dmg |-> d.dmg, crit |-> d.crit, defended |-> d.defended,
     rolls |-> d.rolls]

NoDamage == DamageResult(0, FALSE, "undefined", <<>>)

\* d after one more draw, taken before the draws of d
Roll(kind, d) == [d EXCEPT !.rolls = <<kind>> \o @]

setHp(b, id, hp) ==
    IF b.playerA.id = id THEN [b EXCEPT !.playerA.hp = hp] ELSE [b EXCEPT !.playerB.hp = hp]

\* a processSingleAction whose attack goes on to the hit roll after a
\* successful evade
processSingleActionEvadeHits(b, attackerId, defenderId) ==
    LET attacker == getPlayer(b, attackerId)
        defender == getPlayer(b, defenderId)
        attackerAction == b.actions[attackerId]
        defenderAction == b.actions[defenderId]
        out(bb, lines) == [battle |-> bb, lines |-> lines]
        hitRoll(prefix) ==
            UNION { IF ~isAttackHit(attacker, defender, rHit)
                    THEN { out(b, prefix \o <<LogLine("miss", attackerId, Roll("hit", NoDamage))>>) }
                    ELSE { out(setHp(b, defenderId, Max(0, defender.hp - d.dmg)),
                               prefix \o <<LogLine("attack", attackerId, Roll("hit", d))>>)
                           : d \in calcDamage(attacker, defender, defenderAction) }
                    : rHit \in Draws }
    IN  IF attackerAction = "defend"
        THEN { out(b, <<LogLine("defendReady", attackerId, NoDamage)>>) }
        ELSE IF attackerAction = "evade"
        THEN { out(b, <<LogLine("evadeReady", attackerId, NoDamage)>>) }
        ELSE IF attackerAction = "attack"
        THEN IF defenderAction = "evade"
             THEN UNION { IF tryEvade(defender, rEvade)
                          THEN hitRoll(<<LogLine("evaded", attackerId, Roll("evade", NoDamage))>>)
                          ELSE hitRoll(<<LogLine("evadeFail", attackerId, Roll("evade", NoDamage))>>)
                          : rEvade \in Draws }
             ELSE hitRoll(<<>>)
        ELSE { out(b, <<LogLine("nothing", attackerId, NoDamage)>>) }

\* the outcomes of processSingleAction over the draws it consumes:
\* the battle afterwards and the log lines pushed
processSingleAction(b, attackerId, defenderId) ==
    LET attacker == getPlayer(b, attackerId)
        defender == getPlayer(b, defenderId)
        attackerAction == b.actions[attackerId]
        defenderAction == b.actions[defenderId]
        out(bb, lines) == [battle |-> bb, lines |-> lines]
        hitRoll(prefix) ==
            UNION { IF ~isAttackHit(attacker, defender, rHit)
                    THEN { out(b, prefix \o <<LogLine("miss", attackerId, Roll("hit", NoDamage))>>) }
                    ELSE { out(setHp(b, defenderId, Max(0, defender.hp - d.dmg)),
                               prefix \o <<LogLine("attack", attackerId, Roll("hit", d))>>)
                           : d \in calcDamage(attacker, defender, defenderAction) }
                    : rHit \in Draws }
    IN  IF attackerAction = "defend"
        THEN { out(b, <<LogLine("defendReady", attackerId, NoDamage)>>) }
        ELSE IF attackerAction = "evade"
        THEN { out(b, <<LogLine("evadeReady", attackerId, NoDamage)>>) }
        ELSE IF attackerAction = "attack"
        THEN IF defenderAction = "evade"
             THEN UNION { IF tryEvade(defender, rEvade)
                          THEN { out(b, <<LogLine("evaded", attackerId, Roll("evade", NoDamage))>>) }
                          ELSE hitRoll(<<LogLine("evadeFail", attackerId, Roll("evade", NoDamage))>>)
                          : rEvade \in Draws }
             ELSE hitRoll(<<>>)
        ELSE { out(b, <<LogLine("nothing", attackerId, NoDamage)>>) }

\* "draw" or "win": the branch finishMessage takes
finishMessage(b) ==
    IF b.winnerId = Null /\ b.playerA.hp <= 0 /\ b.playerB.hp <= 0 THEN "draw" ELSE "win"

\* a resolveRound that processes the turn order back to front
resolveRoundSecondFirst(b) ==
    LET first == b.turnOrder[2]
        second == b.turnOrder[1]
        afterFirst(o1) ==
            LET e1 == checkEnd(o1.battle)
            IN  IF ~e1.ended
                THEN { [battle |-> o2.battle, lines |-> o1.lines \o o2.lines]
                       : o2 \in processSingleAction(e1.battle, second, first) }
                ELSE { [battle |-> e1.battle, lines |-> o1.lines] }
        close(o) ==
            LET e == checkEnd(o.battle)
            IN  IF e.ended
                THEN [battle |-> e.battle, lines |-> o.lines, tail |-> finishMessage(e.battle)]
                ELSE [battle |-> resetActions([e.battle EXCEPT !.round = @ + 1]),
                      lines |-> o.lines, tail |-> "next"]
    IN  { close(o) : o \in UNION { afterFirst(o1) : o1 \in processSingleAction(b, first, second) } }

\* a resolveRound that processes the second combatant whatever the first did
resolveRoundNoEarlyStop(b) ==
    LET first == b.turnOrder[1]
        second == b.turnOrder[2]
        afterFirst(o1) ==
            LET e1 == checkEnd(o1.battle)
            IN  IF TRUE
                THEN { [battle |-> o2.battle, lines |-> o1.lines \o o2.lines]
                       : o2 \in processSingleAction(e1.battle, second, first) }
                ELSE { [battle |-> e1.battle, lines |-> o1.lines] }
        close(o) ==
            LET e == checkEnd(o.battle)
            IN  IF e.ended
                THEN [battle |-> e.battle, lines |-> o.lines, tail |-> finishMessage(e.battle)]
                ELSE [battle |-> resetActions([e.battle EXCEPT !.round = @ + 1]),
                      lines |-> o.lines, tail |-> "next"]
    IN  { close(o) : o \in UNION { afterFirst(o1) : o1 \in processSingleAction(b, first, second) } }

\* the outcomes of resolveRound: the battle afterwards, the log, the closing message
resolveRound(b) ==
    LET first == b.turnOrder[1]
        second == b.turnOrder[2]
        afterFirst(o1) ==
            LET e1 == checkEnd(o1.battle)
            IN  IF ~e1.ended
                THEN { [battle |-> o2.battle, lines |-> o1.lines \o o2.lines]
                       : o2 \in processSingleAction(e1.battle, second, first) }
                ELSE { [battle |-> e1.battle, lines |-> o1.lines] }
        close(o) ==
            LET e == checkEnd(o.battle)
            IN  IF e.ended
                THEN [battle |-> e.battle, lines |-> o.lines, tail |-> finishMessage(e.battle)]
                ELSE [battle |-> resetActions([e.battle EXCEPT !.round = @ + 1]),
                      lines |-> o.lines, tail |-> "next"]
    IN  { close(o) : o \in UNION { afterFirst(o1) : o1 \in processSingleAction(b, first, second) } }

SetActionResult(bb, done, msg, lines) ==
    [battle |-> bb, done |-> done, msg |-> msg, lines |-> lines]

\* a recordAction that stops waiting when the caller submits again: the
\* opponent's missing action then counts as a defend
recordActionDefaults(b, playerId, action) ==
    LET otherId == getOpponent(b, playerId).id
        b1 == IF b.actions[playerId] # "null" /\ b.actions[otherId] = "null"
              THEN [b EXCEPT !.actions[playerId] = action, !.actions[otherId] = "defend"]
              ELSE [b EXCEPT !.actions[playerId] = action]
    IN  IF ~isReady(b1)
        THEN { SetActionResult(b1, FALSE,
                   IF b1.actions[otherId] # "null" THEN "bothSelected" ELSE "waiting", <<>>) }
        ELSE { SetActionResult(o.battle, TRUE, o.tail, o.lines) : o \in resolveRound(b1) }

\* setAction past its three checks: record the action, then wait or resolve
recordAction(b, playerId, action) ==
    LET b1 == [b EXCEPT !.actions[playerId] = action]
    IN  IF ~isReady(b1)
        THEN LET other == getOpponent(b1, playerId)
                 otherAction == b1.actions[other.id]
             IN  { SetActionResult(b1, FALSE,
                       IF otherAction # "null" THEN "bothSelected" ELSE "waiting", <<>>) }
        ELSE { SetActionResult(o.battle, TRUE, o.tail, o.lines) : o \in resolveRound(b1) }

\* a setAction without the finished check
setActionNoFinishedCheck(b, playerId, action) ==
    IF playerId \notin DOMAIN b.actions
    THEN { SetActionResult(b, FALSE, "notParticipant", <<>>) }
    ELSE IF action \notin ActionEnum
    THEN { SetActionResult(b, FALSE, "invalidAction", <<>>) }
    ELSE recordAction(b, playerId, action)

\* a setAction that writes the slot before it checks the caller
setActionRecordsFirst(b, playerId, action) ==
    IF b.isFinished
    THEN { SetActionResult(b, TRUE, "finished", <<>>) }
    ELSE IF playerId \notin DOMAIN b.actions
    THEN { SetActionResult([b EXCEPT !.actions = MapSet(@, playerId, action)],
                           FALSE, "notParticipant", <<>>) }
    ELSE IF action \notin ActionEnum
    THEN { SetActionResult(b, FALSE, "invalidAction", <<>>) }
    ELSE recordAction(b, playerId, action)

\* the outcomes of setAction: the battle afterwards and the returned { done, message }
setAction(b, playerId, action) ==
    IF b.isFinished
    THEN { SetActionResult(b, TRUE, "finished", <<>>) }
    ELSE IF playerId \notin DOMAIN b.actions
    THEN { SetActionResult(b, FALSE, "notParticipant", <<>>) }
    ELSE IF action \notin ActionEnum
    THEN { SetActionResult(b, FALSE, "invalidAction", <<>>) }
    ELSE recordAction(b, playerId, action)

(* ---------------- 4) BattleManager ---------------- *)

\* posting: the replies handed to M.post whose promise has not settled yet,
\* one per message handler suspended at its await; a reply is kept as the kind
\* of its message.
\* last: what the most recent manager call returned (ok, the kind of message,
\* the round log) and the Battle object it created or worked on, as the call
\* left it.  The arguments of the call and the returned battleId are not kept.
NoCall == [op |-> "init", ok |-> FALSE, msg |-> "none", lines |-> <<>>, battle |-> <<>>]

InitPairs ==
    /\ characterStore = loadCharactersPairs
    /\ battlesById = <<>>
    /\ battleIdByPlayer = <<>>
    /\ last = NoCall
    /\ posting = EmptyBag

InitKeys ==
    /\ characterStore = loadCharactersKeys
    /\ battlesById = <<>>
    /\ battleIdByPlayer = <<>>
    /\ last = NoCall
    /\ posting = EmptyBag

\* the source's catalog, or one of the catalogs with bounded stats
InitStats ==
    /\ characterStore \in {loadCharactersSource} \cup StatCatalogs
    /\ battlesById = <<>>
    /\ battleIdByPlayer = <<>>
    /\ last = NoCall
    /\ posting = EmptyBag

Init ==
    /\ characterStore = loadCharacters
    /\ battlesById = <<>>
    /\ battleIdByPlayer = <<>>
    /\ last = NoCall
    /\ posting = EmptyBag

findBattleForPlayer(acct) ==
    IF acct \notin DOMAIN battleIdByPlayer THEN <<>>
    ELSE IF battleIdByPlayer[acct] \notin DOMAIN battlesById THEN <<>>
    ELSE <<battlesById[battleIdByPlayer[acct]]>>

\* a refusal that looks only at the first combatant
startRefusalChecksOnlyA(battleId, charA, charB) ==
    IF battleId \in DOMAIN battlesById THEN "alreadyInProgress"
    ELSE IF charA.id \in DOMAIN battleIdByPlayer THEN "alreadyInOtherBattle"
    ELSE "none"

\* the two refusals of startBattle, "none" when it goes ahead
startRefusal(battleId, charA, charB) ==
    IF battleId \in DOMAIN battlesById THEN "alreadyInProgress"
    ELSE IF charA.id \in DOMAIN battleIdByPlayer \/ charB.id \in DOMAIN battleIdByPlayer
    THEN "alreadyInOtherBattle"
    ELSE "none"

startBattle(acctA, acctB) ==
    LET charA == buildCharacterFromAcct(acctA)
        charB == buildCharacterFromAcct(acctB)
        battleId == makeBattleId(charA.id, charB.id)
        refusal == startRefusal(battleId, charA, charB)
        ret(ok, msg) == [NoCall EXCEPT !.op = "start", !.ok = ok, !.msg = msg]
    IN  IF refusal # "none"
        THEN /\ last' = ret(FALSE, refusal)
             /\ UNCHANGED <<characterStore, battlesById, battleIdByPlayer>>
        ELSE \E order \in decideOrder(charA, charB) :
                LET battle == NewBattle(charA, charB, order)
                IN  /\ battlesById' = MapSet(battlesById, battleId, battle)
                    /\ battleIdByPlayer' =
                           MapSet(MapSet(battleIdByPlayer, charA.id, battleId), charB.id, battleId)
                    /\ last' = [ret(TRUE, "started") EXCEPT !.battle = <<battle>>]
                    /\ UNCHANGED characterStore

\* a clean-up that forgets the second combatant
deletePlayersOnlyA(map, battle) == MapDelete(map, battle.playerA.id)

\* the participant map after the clean-up of a finished battle
deletePlayers(map, battle) ==
    MapDelete(MapDelete(map, battle.playerA.id), battle.playerB.id)

\* The round counter is unbounded in the source; calls on a battle whose round
\* exceeds MaxRound are left out of the model.
submitAction(playerAcct, action) ==
    LET found == findBattleForPlayer(playerAcct)
    IN  IF found = <<>>
        THEN /\ last' = [NoCall EXCEPT !.op = "submit", !.msg = "notInBattle"]
             /\ UNCHANGED <<characterStore, battlesById, battleIdByPlayer>>
        ELSE LET battle == found[1]
                 bid == battleIdByPlayer[playerAcct]
             IN  /\ battle.round <= MaxRound
                 /\ \E res \in setAction(battle, playerAcct, action) :
                        /\ IF res.battle.isFinished
                           THEN /\ battleIdByPlayer' = deletePlayers(battleIdByPlayer, battle)
                                /\ battlesById' = MapDelete(battlesById, bid)
                           ELSE /\ battlesById' = [battlesById EXCEPT ![bid] = res.battle]
                                /\ UNCHANGED battleIdByPlayer
                        /\ last' = [op |-> "submit", ok |-> TRUE, msg |-> res.msg,
                                    lines |-> res.lines, battle |-> <<res.battle>>]
                        /\ UNCHANGED characterStore

StartBattle ==
    \E acctA \in DOMAIN characterStore, acctB \in DOMAIN characterStore :
        /\ acctA # acctB
        /\ startBattle(acctA, acctB)
        /\ UNCHANGED posting

SubmitAction ==
    \E playerAcct \in DOMAIN characterStore, action \in ActionInputs :
        submitAction(playerAcct, action) /\ UNCHANGED posting

Next == StartBattle \/ SubmitAction

Spec == Init /\ [][Next]_vars

SpecPairs == InitPairs /\ [][Next]_vars

SpecKeys == InitKeys /\ [][Next]_vars

SpecStats == InitStats /\ [][Next]_vars

(* ---------------- 5) the bot: status handler and stream runner ---------------- *)

\* an acct that is not in the catalog
Strangers == {AcctC}

\* the stream runner posts the reply of the handler and awaits the post
Reply(msg) == posting' = posting (+) SetToBag({msg})

ReplyWithoutCall(msg) ==
    /\ Reply(msg)
    /\ UNCHANGED <<characterStore, battlesById, battleIdByPlayer, last>>

\* one status from the stream, from the handler's first line to the await of
\* the post.  cmd is what parseCommand made of the text, mentioned what
\* extractMentionedAccts made of the mentions.  A status whose text holds no
\* command gets no reply and changes nothing; it is left out.
handleIncomingStatus(actorAcct, cmd, mentioned) ==
    /\ BagCardinality(posting) < MaxPosting
    /\ IF cmd.type = "start"
       THEN IF Len(mentioned) < 2
            THEN ReplyWithoutCall("needTwoMentions")
            ELSE LET acctA == mentioned[1]
                     acctB == mentioned[2]
                 IN  IF acctA = acctB
                     THEN ReplyWithoutCall("selfFight")
                     ELSE IF acctA \notin DOMAIN characterStore \/ acctB \notin DOMAIN characterStore
                     THEN ReplyWithoutCall("unregistered")
                     ELSE startBattle(acctA, acctB) /\ Reply(last'.msg)
       ELSE IF actorAcct \notin DOMAIN characterStore
            THEN ReplyWithoutCall("notRegistered")
            ELSE submitAction(actorAcct, cmd.action) /\ Reply(last'.msg)

Actors == DOMAIN characterStore \cup Strangers

MentionLists == {<<>>} \cup { <<a>> : a \in Actors } \cup { <<a, b>> : a \in Actors, b \in Actors }

OnStartStatus ==
    \E actorAcct \in Strangers, mentioned \in MentionLists :
        handleIncomingStatus(actorAcct, [type |-> "start", action |-> "null"], mentioned)

OnActionStatus ==
    \E actorAcct \in Actors, action \in ActionEnum :
        handleIncomingStatus(actorAcct, [type |-> "action", action |-> action], <<>>)

\* the promise of a post settles, fulfilled or rejected: the handler logs and ends
PostSettled ==
    /\ \E msg \in BagToSet(posting) : posting' = posting (-) SetToBag({msg})
    /\ UNCHANGED <<characterStore, battlesById, battleIdByPlayer, last>>

NextRunner == OnStartStatus \/ OnActionStatus \/ PostSettled

InitRunner ==
    /\ characterStore = loadCharactersStats(2, 1, 100)
    /\ battlesById = <<>>
    /\ battleIdByPlayer = <<>>
    /\ last = NoCall
    /\ posting = EmptyBag

SpecRunner == InitRunner /\ [][NextRunner]_vars

(* ======================= properties ======================= *)

Combatants(b) == {b.playerA.id, b.playerB.id}

\* the keys of the non-finished battles of battlesById that id fights in
LiveKeysOf(id) ==
    { k \in DOMAIN battlesById :
        ~battlesById[k].isFinished /\ id \in Combatants(battlesById[k]) }

\* the call that led to the current state finished its battle
JustFinished == last.op = "submit" /\ last.battle # <<>> /\ last.battle[1].isFinished

\* C1: an identity is a key of battleIdByPlayer iff it is a combatant of exactly
\* one non-finished battle stored in battlesById, and its entry is that battle's key.
C1_ParticipantMapExact ==
    \A id \in DOMAIN characterStore :
        /\ (id \in DOMAIN battleIdByPlayer) <=> (Cardinality(LiveKeysOf(id)) = 1)
        /\ id \in DOMAIN battleIdByPlayer => battleIdByPlayer[id] \in LiveKeysOf(id)

\* a battle has just finished and been removed while another battle is live
C1_Witness ==
    /\ JustFinished
    /\ Cardinality(DOMAIN battlesById) = 1
    /\ Cardinality(DOMAIN battleIdByPlayer) = 2
    /\ Combatants(last.battle[1]) \cap DOMAIN battleIdByPlayer = {}

PairUnique ==
    \A k1 \in DOMAIN battlesById, k2 \in DOMAIN battlesById :
        Combatants(battlesById[k1]) = Combatants(battlesById[k2]) => k1 = k2

PairLive(acctA, acctB) ==
    \E k \in DOMAIN battlesById : Combatants(battlesById[k]) = {acctA, acctB}

\* C2: startBattle(A,B) and startBattle(B,A) compute the same key (a battle is
\* registered under the key the swapped call computes), battlesById never holds
\* two battles of one unordered pair, and while a pair's battle is live every
\* startBattle for that pair, in either argument order, fails and changes nothing.
C2_OneBattlePerPair ==
    [][ last'.op = "start" =>
        /\ PairUnique'
        /\ \A k \in DOMAIN battlesById' \ DOMAIN battlesById :
              k = makeBattleId(battlesById'[k].playerB.id, battlesById'[k].playerA.id)
        /\ \A acctA \in DOMAIN characterStore, acctB \in DOMAIN characterStore :
              (acctA # acctB /\ PairLive(acctA, acctB)
                 /\ (startBattle(acctA, acctB) \/ startBattle(acctB, acctA)))
              => (~last'.ok /\ UNCHANGED <<battlesById, battleIdByPlayer>>)
      ]_vars

\* a second startBattle for a pair whose battle is live has been refused
C2_Witness ==
    /\ last.op = "start" /\ ~last.ok /\ last.msg = "alreadyInProgress"
    /\ DOMAIN battlesById # {}

\* the call that led to the current state resolved a round
JustResolved == last.op = "submit" /\ last.lines # <<>>

\* the battle of battlesById whose combatants are those of post
PreOf(post) ==
    battlesById[CHOOSE k \in DOMAIN battlesById :
                    Combatants(battlesById[k]) = Combatants(post)]

\* C3: right after a submitAction that finished its battle, both combatants are
\* absent from battleIdByPlayer and the battle's key is absent from battlesById,
\* and a startBattle issued next that names a former participant and any
\* identity that is in no battle succeeds.
C3_EligibleAfterFinish ==
    [][ JustFinished =>
        LET b == last.battle[1]
        IN  /\ Combatants(b) \cap DOMAIN battleIdByPlayer = {}
            /\ makeBattleId(b.playerA.id, b.playerB.id) \notin DOMAIN battlesById
            /\ \A p \in Combatants(b), q \in DOMAIN characterStore :
                  (p # q /\ q \notin DOMAIN battleIdByPlayer
                     /\ (startBattle(p, q) \/ startBattle(q, p)))
                  => last'.ok
      ]_vars

\* the slot of q when p's submitted action has been recorded in battle b
SlotAfter(b, p, action, q) == IF q = p THEN action ELSE b.actions[q]

\* C4: for a participant p of an unfinished battle and a valid action, the call
\* resolves a round iff the opponent's slot is set (so that both are set once
\* p's action is recorded) and the resolution processes the recorded actions;
\* otherwise it returns "waiting", p's slot holds the submitted action (also when
\* it overwrites an earlier one), and hp, round and the opponent's slot are unchanged.
C4_ResolveIffBothSet ==
    [][ \A p \in DOMAIN battleIdByPlayer, action \in ActionEnum :
          submitAction(p, action) =>
            LET b == battlesById[battleIdByPlayer[p]]
                opp == getOpponent(b, p).id
                post == last'.battle[1]
            IN  /\ JustResolved' <=> b.actions[opp] # "null"
                /\ JustResolved' =>
                      \A i \in DOMAIN last'.lines :
                        LET l == last'.lines[i]
                            slot == SlotAfter(b, p, action, l.who)
                        IN  /\ l.ev \in {"miss", "attack", "evaded", "evadeFail"} => slot = "attack"
                            /\ l.ev = "defendReady" => slot = "defend"
                            /\ l.ev = "evadeReady" => slot = "evade"
                            /\ l.ev # "nothing"
                /\ ~JustResolved' =>
                      /\ last'.msg = "waiting"
                      /\ post = battlesById'[battleIdByPlayer[p]]
                      /\ post.actions[p] = action
                      /\ post.actions[opp] = "null"
                      /\ post.playerA = b.playerA /\ post.playerB = b.playerB
                      /\ post.round = b.round /\ ~post.isFinished
      ]_vars

\* a second round has been opened by a resolution that left both alive
C4_Witness ==
    /\ JustResolved /\ ~last.battle[1].isFinished
    /\ last.battle[1].round = 2
    /\ \A p \in DOMAIN last.battle[1].actions : last.battle[1].actions[p] = "null"

\* C5: after a round resolution exactly one holds: both hp > 0, the round counter
\* is one more than before, both slots are unset and the battle is not finished;
\* or some hp <= 0 and the battle is finished, won by the only combatant with
\* hp > 0, or by nobody when both hp are 0.
C5_PostResolution ==
    [][ JustResolved' =>
          LET post == last'.battle[1]
              pre == PreOf(post)
              a == post.playerA
              b == post.playerB
              goesOn == /\ a.hp > 0 /\ b.hp > 0
                        /\ post.round = pre.round + 1
                        /\ \A p \in DOMAIN post.actions : post.actions[p] = "null"
                        /\ ~post.isFinished
                        /\ post = battlesById'[battleIdByPlayer[a.id]]
              ended ==  /\ a.hp <= 0 \/ b.hp <= 0
                        /\ post.isFinished
                        /\ post.round = pre.round
                        /\ post.winnerId = IF a.hp > 0 THEN a.id
                                           ELSE IF b.hp > 0 THEN b.id ELSE Null
          IN  (goesOn \/ ended) /\ ~(goesOn /\ ended)
      ]_vars

\* a resolution has ended a battle in its second round
C5_Witness ==
    /\ JustResolved /\ last.battle[1].isFinished
    /\ last.battle[1].round = 2
    /\ last.battle[1].winnerId # Null

\* C6: every battle in progress has both hp > 0, and a finished battle stays
\* finished with the same winner whatever is submitted to it and however often
\* its end is checked.
C6_InProgressAlive ==
    /\ \A k \in DOMAIN battlesById :
          ~battlesById[k].isFinished =>
             battlesById[k].playerA.hp > 0 /\ battlesById[k].playerB.hp > 0
    /\ (last.battle # <<>> /\ last.battle[1].isFinished) =>
          LET fb == last.battle[1]
          IN  /\ checkEnd(fb).battle.isFinished
              /\ checkEnd(fb).battle.winnerId = fb.winnerId
              /\ \A p \in DOMAIN characterStore, action \in ActionInputs :
                    \A res \in setAction(fb, p, action) :
                       res.battle.isFinished /\ res.battle.winnerId = fb.winnerId

\* a battle in progress in which a combatant has lost hp
C6_Witness ==
    \E k \in DOMAIN battlesById :
        /\ ~battlesById[k].isFinished
        /\ battlesById[k].playerA.hp < battlesById[k].playerA.maxHp
        /\ battlesById[k].round > 1

\* C7: once a battle is finished, setAction on it by either former participant
\* with any action returns the "finished" rejection and leaves every field as
\* it is, and the manager's submitAction for a former participant fails with
\* "not in battle" and changes nothing.
C7_FinishedRejects ==
    [][ JustFinished =>
          LET fb == last.battle[1]
          IN  \A p \in Combatants(fb), action \in ActionInputs :
                /\ setAction(fb, p, action) = { SetActionResult(fb, TRUE, "finished", <<>>) }
                /\ submitAction(p, action) =>
                      /\ ~last'.ok /\ last'.msg = "notInBattle"
                      /\ UNCHANGED <<battlesById, battleIdByPlayer>>
      ]_vars

\* a finished battle whose two slots still hold the actions of its last round
C7_Witness ==
    /\ JustFinished
    /\ \A p \in DOMAIN last.battle[1].actions : last.battle[1].actions[p] # "null"
    /\ last.battle[1].playerA.hp = 0 \/ last.battle[1].playerB.hp = 0

\* C8: the turn order of a new battle lists its two combatants, the faster one
\* first; no later call changes it; and every resolution processes the first of
\* the order before the second.
C8_TurnOrderFixed ==
    [][ /\ \A k \in DOMAIN battlesById \cap DOMAIN battlesById' :
              battlesById'[k].turnOrder = battlesById[k].turnOrder
        /\ (last'.op = "submit" /\ last'.battle # <<>>) =>
              last'.battle[1].turnOrder = PreOf(last'.battle[1]).turnOrder
        /\ \A k \in DOMAIN battlesById' \ DOMAIN battlesById :
              LET b == battlesById'[k]
              IN  /\ {b.turnOrder[1], b.turnOrder[2]} = Combatants(b)
                  /\ b.turnOrder[1] # b.turnOrder[2]
                  /\ getPlayer(b, b.turnOrder[1]).speed >= getPlayer(b, b.turnOrder[2]).speed
        /\ JustResolved' =>
              LET order == PreOf(last'.battle[1]).turnOrder
                  lines == last'.lines
              IN  /\ lines[1].who = order[1]
                  /\ \A i \in DOMAIN lines, j \in DOMAIN lines :
                        (lines[i].who = order[2] /\ lines[j].who = order[1]) => j < i
      ]_vars

\* a third round has been reached, after hp changed, in a battle of equal
\* speeds whose draw put playerB first
C8_Witness ==
    /\ JustResolved /\ last.battle[1].round = 3
    /\ last.battle[1].playerA.speed = last.battle[1].playerB.speed
    /\ last.battle[1].turnOrder[1] = last.battle[1].playerB.id
    /\ last.battle[1].playerA.hp < last.battle[1].playerA.maxHp

\* C9: startBattle(A,B) fails when the pair's key is in battlesById or A or B is
\* in battleIdByPlayer, and a failed startBattle leaves battlesById (every
\* battle's hp, round and slots) and battleIdByPlayer unchanged.
C9_FailedStartNoOp ==
    [][ last'.op = "start" =>
          \A acctA \in DOMAIN characterStore, acctB \in DOMAIN characterStore :
            (acctA # acctB /\ startBattle(acctA, acctB)) =>
              /\ (\/ makeBattleId(acctA, acctB) \in DOMAIN battlesById
                   \/ acctA \in DOMAIN battleIdByPlayer
                   \/ acctB \in DOMAIN battleIdByPlayer) => ~last'.ok
              /\ ~last'.ok => UNCHANGED <<battlesById, battleIdByPlayer>>
      ]_vars

\* a startBattle has been refused because one side fights elsewhere
C9_Witness ==
    /\ last.op = "start" /\ ~last.ok /\ last.msg = "alreadyInOtherBattle"
    /\ Cardinality(DOMAIN battleIdByPlayer) = 2

\* C10: setAction by an identity that is not one of a battle's combatants
\* returns the "not a participant" rejection and leaves the battle as it is;
\* submitAction by an identity that is in no battle fails with "not in battle"
\* and changes neither map.
C10_NonMemberRejected ==
    [][ /\ \A k \in DOMAIN battlesById :
              \A p \in DOMAIN characterStore \ Combatants(battlesById[k]),
                 action \in ActionInputs :
                 setAction(battlesById[k], p, action)
                    = { SetActionResult(battlesById[k], FALSE, "notParticipant", <<>>) }
        /\ \A p \in DOMAIN characterStore \ DOMAIN battleIdByPlayer, action \in ActionInputs :
              submitAction(p, action) =>
                 /\ ~last'.ok /\ last'.msg = "notInBattle" /\ last'.battle = <<>>
                 /\ UNCHANGED <<battlesById, battleIdByPlayer>>
      ]_vars

\* an outsider's submitAction has been refused while a battle is under way
C10_Witness ==
    /\ last.op = "submit" /\ ~last.ok /\ last.msg = "notInBattle"
    /\ \E k \in DOMAIN battlesById : battlesById[k].round > 1

\* C11: a submitAction by a participant of a live battle whose action is none
\* of attack, defend, evade is reported to the caller as a failure with the
\* "invalid action" message, and it changes no slot, no hp and no round.
C11_InvalidActionFails ==
    [][ \A p \in DOMAIN battleIdByPlayer, action \in ActionInputs \ ActionEnum :
           submitAction(p, action) =>
              /\ ~last'.ok /\ last'.msg = "invalidAction"
              /\ UNCHANGED <<battlesById, battleIdByPlayer>>
      ]_vars

\* every combatant the state holds: of the live battles and of the battle the
\* last call worked on
AllCombatants ==
    UNION { {battlesById[k].playerA, battlesById[k].playerB} : k \in DOMAIN battlesById }
    \cup (IF last.battle = <<>> THEN {} ELSE {last.battle[1].playerA, last.battle[1].playerB})

\* C12: every combatant's hp is an integer with 0 <= hp <= maxHp, and every
\* damage amount of a processed attack is a non-negative integer, also when a
\* successful defend meets def > atk.
C12_HpAndDamageInRange ==
    /\ \A c \in AllCombatants : c.hp \in 0..c.maxHp
    /\ \A i \in DOMAIN last.lines : last.lines[i].dmg \in Nat

\* an attack was defended by a combatant whose def exceeds the attacker's atk
C12_Witness ==
    /\ JustResolved
    /\ \E i \in DOMAIN last.lines :
          LET l == last.lines[i]
              attacker == getPlayer(last.battle[1], l.who)
              defender == getOpponent(last.battle[1], l.who)
          IN  /\ l.ev = "attack" /\ l.defended = "true"
              /\ defender.def > attacker.atk /\ attacker.atk > 0
              /\ l.dmg = 0 /\ defender.hp = defender.maxHp

\* C13: the damage of every attack that hits follows the priority order:
\* floor(atk * 1.5) when the crit draw passes, whatever the defender declared
\* and without a defend draw; otherwise max(0, atk - def) when the defender
\* declared defend and the defend draw passes; otherwise atk.  The defender's
\* hp drops by that amount, not below 0.
C13_DamagePriority ==
    [][ JustResolved' =>
          \A p \in Combatants(last'.battle[1]), action \in ActionEnum :
             submitAction(p, action) =>
                LET post == last'.battle[1]
                    b1 == [PreOf(post) EXCEPT !.actions[p] = action]
                IN  \A i \in DOMAIN last'.lines :
                       LET l == last'.lines[i]
                           attacker == getPlayer(b1, l.who)
                           defender == getOpponent(b1, l.who)
                           declaredDefend == b1.actions[defender.id] = "defend"
                           reference ==
                               IF l.crit THEN (3 * attacker.atk) \div 2
                               ELSE IF declaredDefend /\ l.defended = "true"
                               THEN Max(0, attacker.atk - defender.def)
                               ELSE attacker.atk
                       IN  l.ev = "attack" =>
                              /\ l.dmg = reference
                              /\ l.crit => attacker.crit > 0 /\ l.rolls = <<"hit", "crit">>
                              /\ ~l.crit => attacker.crit < 1000
                              /\ (~l.crit /\ declaredDefend) <=> l.defended \in {"true", "false"}
                              /\ (~l.crit /\ declaredDefend) <=> l.rolls = <<"hit", "crit", "defend">>
                              /\ getPlayer(post, defender.id).hp = Max(0, defender.hp - reference)
      ]_vars

\* the source's example: atk 20 hits def 9 behind a successful defend, and the
\* defender goes from hp 90 to 79
C13_Witness ==
    /\ JustResolved /\ characterStore = loadCharactersSource
    /\ last.battle[1].round = 2
    /\ getPlayer(last.battle[1], AcctSawa).hp = 79
    /\ \E i \in DOMAIN last.lines :
          /\ last.lines[i].who = AcctSawa2 /\ last.lines[i].ev = "attack"
          /\ last.lines[i].defended = "true" /\ last.lines[i].dmg = 11

\* the lines of a log that report on the action of combatant id
LinesOf(lines, id) == SelectSeq(lines, LAMBDA l : l.who = id)

\* C14: an attack on a defender who declared evade draws for the evade first.
\* When the evade succeeds the defender's hp is unchanged and no hit, crit or
\* defend draw is taken; when it fails the attack goes on to the hit roll and
\* to the damage of an undefended attack.
C14_EvadeNegatesAttack ==
    [][ JustResolved' =>
          \A p \in Combatants(last'.battle[1]), action \in ActionEnum :
             submitAction(p, action) =>
                LET post == last'.battle[1]
                    b1 == [PreOf(post) EXCEPT !.actions[p] = action]
                IN  \A attackerId \in Combatants(b1) :
                       LET attacker == getPlayer(b1, attackerId)
                           defender == getOpponent(b1, attackerId)
                           hpAfter == getPlayer(post, defender.id).hp
                           mine == LinesOf(last'.lines, attackerId)
                           evaded == /\ Len(mine) = 1
                                     /\ mine[1].ev = "evaded" /\ mine[1].rolls = <<"evade">>
                                     /\ mine[1].dmg = 0 /\ hpAfter = defender.hp
                           missed == /\ mine[2].ev = "miss" /\ mine[2].rolls = <<"hit">>
                                     /\ hpAfter = defender.hp
                           hit ==    /\ mine[2].ev = "attack" /\ mine[2].defended = "undefined"
                                     /\ mine[2].rolls = <<"hit", "crit">>
                                     /\ mine[2].dmg = IF mine[2].crit THEN (3 * attacker.atk) \div 2
                                                      ELSE attacker.atk
                                     /\ hpAfter = Max(0, defender.hp - mine[2].dmg)
                           failed == /\ Len(mine) = 2
                                     /\ mine[1].ev = "evadeFail" /\ mine[1].rolls = <<"evade">>
                                     /\ missed \/ hit
                       IN  (b1.actions[attackerId] = "attack" /\ b1.actions[defender.id] = "evade"
                               /\ mine # <<>>)
                           => (evaded \/ failed)
      ]_vars

\* an evade has succeeded against an attack in a battle that has seen damage
C14_Witness ==
    /\ JustResolved /\ ~last.battle[1].isFinished
    /\ \E i \in DOMAIN last.lines : last.lines[i].ev = "evaded"
    /\ \E c \in AllCombatants : c.hp < c.maxHp

\* C15: a resolution processes the first of the turn order before the second,
\* and when the second is at hp 0 afterwards the resolution stopped after the
\* first: nothing of the second's action was applied, the first's hp is what
\* it was before the round, and the first has won.
C15_FirstStrikeEndsRound ==
    [][ JustResolved' =>
          LET post == last'.battle[1]
              pre == PreOf(post)
              first == pre.turnOrder[1]
              second == pre.turnOrder[2]
              lines == last'.lines
          IN  /\ lines[1].who = first
              /\ LinesOf(lines, first) \o LinesOf(lines, second) = lines
              /\ getPlayer(post, second).hp = 0 =>
                    /\ LinesOf(lines, second) = <<>>
                    /\ getPlayer(post, first).hp = getPlayer(pre, first).hp
                    /\ post.isFinished /\ post.winnerId = first
      ]_vars

\* the first of the turn order has won a round in which the second had
\* declared an attack, after the first had lost hp in an earlier round
C15_Witness ==
    /\ JustFinished
    /\ last.battle[1].winnerId = last.battle[1].turnOrder[1]
    /\ last.battle[1].actions[last.battle[1].turnOrder[2]] = "attack"
    /\ getPlayer(last.battle[1], last.battle[1].turnOrder[1]).hp
          < getPlayer(last.battle[1], last.battle[1].turnOrder[1]).maxHp

\* every battle the state holds: the live ones and the one the last call worked on
AllBattles ==
    { battlesById[k] : k \in DOMAIN battlesById }
    \cup (IF last.battle = <<>> THEN {} ELSE {last.battle[1]})

\* C19: no battle ever has both combatants at hp <= 0, no call returns the draw
\* message, and every finished battle has a winner, who is one of its
\* combatants and has hp > 0.
C19_NoDraw ==
    /\ last.msg # "draw"
    /\ \A b \in AllBattles :
          /\ ~(b.playerA.hp <= 0 /\ b.playerB.hp <= 0)
          /\ b.isFinished =>
                /\ b.winnerId \in Combatants(b)
                /\ getPlayer(b, b.winnerId).hp > 0
                /\ getOpponent(b, b.winnerId).hp = 0

\* a battle was won by the second of the turn order after both had attacked
C19_Witness ==
    /\ JustFinished /\ last.msg = "win"
    /\ last.battle[1].winnerId = last.battle[1].turnOrder[2]
    /\ \A p \in Combatants(last.battle[1]) : last.battle[1].actions[p] = "attack"
    /\ getPlayer(last.battle[1], last.battle[1].winnerId).hp = 1

\* C20: startBattle(A,B) with A # B succeeds whenever neither A nor B is in
\* battleIdByPlayer: the key of a free pair is never the key of a live battle
\* of another pair.
C20_FreePairStarts ==
    [][ last'.op = "start" =>
          \A acctA \in DOMAIN characterStore, acctB \in DOMAIN characterStore :
             (/\ acctA # acctB
              /\ acctA \notin DOMAIN battleIdByPlayer
              /\ acctB \notin DOMAIN battleIdByPlayer
              /\ startBattle(acctA, acctB))
             => /\ last'.ok
                /\ makeBattleId(acctA, acctB) \notin DOMAIN battlesById
      ]_vars

\* battle k and its two entries of battleIdByPlayer are after the step what
\* they were before it, but for the slot of q's opponent
Untouched(k, q) ==
    /\ k \in DOMAIN battlesById'
    /\ battlesById'[k].playerA = battlesById[k].playerA
    /\ battlesById'[k].playerB = battlesById[k].playerB
    /\ battlesById'[k].round = battlesById[k].round
    /\ battlesById'[k].turnOrder = battlesById[k].turnOrder
    /\ ~battlesById'[k].isFinished /\ battlesById'[k].winnerId = Null
    /\ battlesById'[k].actions[q] = "null"
    /\ \A id \in Combatants(battlesById[k]) :
          id \in DOMAIN battleIdByPlayer' /\ battleIdByPlayer'[id] = k

\* C17: while a combatant of a live battle has not submitted, every step that
\* is not a submission of an action by that combatant (submissions by the
\* opponent and by others, startBattle calls) leaves the battle unresolved:
\* same hp, same round, not finished, both combatants still in
\* battleIdByPlayer; and every startBattle that names the combatant is refused.
C17_NoTimeout ==
    [][ \A k \in DOMAIN battlesById : \A q \in Combatants(battlesById[k]) :
           battlesById[k].actions[q] = "null" =>
              /\ Untouched(k, q) \/ \E action \in ActionEnum : submitAction(q, action)
              /\ last'.op = "start" =>
                    \A x \in DOMAIN characterStore \ {q} :
                       (startBattle(q, x) \/ startBattle(x, q)) => ~last'.ok
      ]_vars

\* a startBattle has been refused while, in its second round, a battle waits
\* for one combatant whose opponent has submitted
C17_Witness ==
    /\ last.op = "start" /\ ~last.ok
    /\ \E k \in DOMAIN battlesById :
          /\ battlesById[k].round = 2
          /\ \E q \in Combatants(battlesById[k]) :
                /\ battlesById[k].actions[q] = "null"
                /\ battlesById[k].actions[getOpponent(battlesById[k], q).id] # "null"

\* C16: whatever the order in which the two participants' statuses are handled
\* and however many replies are still being posted, a submission is one step
\* that either records an action and waits, or resolves the round completely.
\* A stored battle is never seen with both slots set; a resolution raises the
\* round by exactly 1 and clears both slots, or finishes the battle and removes
\* it; the caller is told "waiting" or the outcome of a whole round.
C16_ResolutionAtomic ==
    [][ /\ \A k \in DOMAIN battlesById :
              LET b == battlesById[k]
              IN  /\ ~isReady(b) /\ ~b.isFinished
                  /\ IF k \in DOMAIN battlesById'
                     THEN LET b2 == battlesById'[k]
                          IN  \/ b2 = b
                              \/ /\ \E p \in Combatants(b) :
                                        /\ b2.actions[p] \in ActionEnum
                                        /\ b2 = [b EXCEPT !.actions[p] = b2.actions[p]]
                                 /\ ~isReady(b2)
                                 /\ last'.op = "submit" /\ last'.lines = <<>>
                                 /\ last'.battle = <<b2>>
                              \/ /\ JustResolved' /\ last'.battle = <<b2>>
                                 /\ b2.round = b.round + 1
                                 /\ \A p \in Combatants(b) : b2.actions[p] = "null"
                                 /\ \E p \in Combatants(b) : b.actions[p] # "null"
                     ELSE /\ JustResolved' /\ last'.battle[1].isFinished
                          /\ Combatants(last'.battle[1]) = Combatants(b)
                          /\ last'.battle[1].round = b.round
                          /\ Combatants(b) \cap DOMAIN battleIdByPlayer' = {}
        /\ (last'.op = "submit" /\ last'.ok /\ last' # last) =>
              /\ last'.msg \in {"waiting", "next", "win", "draw"}
              /\ last'.msg = "waiting" <=> last'.lines = <<>>
              /\ BagIn(last'.msg, posting')
      ]_vars

\* a round has been resolved while the reply to the first submission of that
\* round was still being posted
C16_Witness ==
    /\ JustResolved /\ last.battle[1].round = 2
    /\ BagIn("waiting", posting) /\ BagIn("next", posting)

\* the template stats that combatant c carries
StatsOf(c) == Template(c.id, c.maxHp, c.atk, c.def, c.agi, c.speed, c.crit)

\* C18: no step changes the catalog; every battle that a start status creates
\* has both combatants at the stats of their templates, hp = maxHp, round 1,
\* both slots unset and no winner, also when a combatant was beaten in an
\* earlier battle; and combat changes nothing of a combatant but hp.
C18_TemplatesUntouched ==
    [][ /\ characterStore' = characterStore
        /\ \A k \in DOMAIN battlesById' \ DOMAIN battlesById :
              LET b == battlesById'[k]
              IN  /\ b.playerA.hp = characterStore[b.playerA.id].maxHp
                  /\ b.playerB.hp = characterStore[b.playerB.id].maxHp
                  /\ b.round = 1 /\ ~b.isFinished /\ b.winnerId = Null
                  /\ \A p \in Combatants(b) : b.actions[p] = "null"
        /\ \A c \in AllCombatants' : StatsOf(c) = characterStore[c.id]
      ]_vars

\* a battle has been started at full hp while the reply that announced the end
\* of an earlier battle, lost by one of the two, was still being posted
C18_Witness ==
    /\ last.op = "start" /\ last.ok
    /\ BagIn("win", posting)
    /\ \A c \in {last.battle[1].playerA, last.battle[1].playerB} : c.hp = c.maxHp
    /\ last.battle[1].round = 1
====
